---------------------------- MODULE Spec2Model ----------------------------
(***************************************************************************)
(* Flappy Birdo: the game simulation (scenes.py, objects.py) and the       *)
(* gymnasium environment adapter (game.py) as a state machine.             *)
(*                                                                         *)
(* One action per public operation of Game: step(action), render() and     *)
(* reset().  The scene methods are operators on scene records, translated  *)
(* statement by statement.  random.randrange is a choice from PipeYs, the  *)
(* pygame event queue a choice from EventQueues.                           *)
(***************************************************************************)
EXTENDS Integers, Sequences, FiniteSets, TLC

(* ------------------------------ settings ------------------------------ *)
\* settings.py:23
SCREEN_WIDTH == 300
SCREEN_HEIGHT == 512

(* Sprite sizes (bird.png loaded at objects.py:67, pipe.png at             *)
(* objects.py:141, read through get_width() and get_height()).  The image  *)
(* files are data, not code; the sizes are the ones the declared           *)
(* observation space (game.py:63-72) is computed from: x_distance high     *)
(* 166 = 300 - (100 + 34), y_upper_distance low -269 = 0 - (270 - 1),      *)
(* y_lower_distance high 355 = 269 + 110 - 24.  The pipe's width is that   *)
(* of the sprite the other three sizes belong to; pipes move on multiples  *)
(* of 4, so any width gives one scoring tick per pair.                     *)
BIRD_W == 34
BIRD_H == 24
PIPE_W == 52
PIPE_H == 270

\* objects.py:70-74 (Player.__init__)
INIT_VELOCITY == -8
MAX_VELOCITY_Y == 10
ACC_Y == 1
JUMP_VELOCITY == -8
\* objects.py:149 (Pipe.__init__)
PIPE_VELOCITY == -4
\* scenes.py:321 (_generate_pipes)
OFFSET == 110
\* scenes.py:192 (_check_player): the width of the scoring window
SCORE_WINDOW == 4
\* scenes.py:208 (_check_pipes): the spawn window is 0 < x < 5
SPAWN_WINDOW == 5
\* scenes.py:115 (GameScene.__init__)
PLAYER_X == 100
PLAYER_Y == 300
\* scenes.py:34-42 (MainMenu.__init__): 300 / 2 - 20, 512 / 2, 300 - 100
MENU_PLAYER_X == 130
MENU_PLAYER_Y == 256
MENU_PIPE_X == 200
MENU_TOP_Y == -120
MENU_BOTTOM_Y == 320
\* scenes.py:64-66 (MainMenu.update_screen)
MENU_WRAP_AT == -100
MENU_WRAP_TO == 400
\* game.py:162
COLLISION_REWARD == -500
\* game.py:63-72 (observation_space)
PLAYER_VELOCITY_LOW == -8
PLAYER_VELOCITY_HIGH == 10
X_DISTANCE_LOW == -126
X_DISTANCE_HIGH == 166
Y_UPPER_LOW == -269
Y_UPPER_HIGH == 354
Y_LOWER_LOW == -268
Y_LOWER_HIGH == 355

(* ------------------------------- bounds ------------------------------- *)
\* A GameScene is advanced for at most MaxTicks ticks: far enough for the
\* first pair to be passed, the second to be generated and the first to be
\* removed.
MaxTicks == 100
\* A jump input (action 0, or a space key-down in the game scene) is issued
\* only when the player moves at one of these velocities: late in a fall,
\* or early in one.  They let the player pass a pair, and also hit a pipe
\* on the very tick it passes the pair.
JumpVelocities == {2} \cup 8..MAX_VELOCITY_Y
\* random.randrange(-PIPE_H + OFFSET, 0) draws from -160 .. -1; the model
\* draws the lowest value and one from the middle of the range.
PipeYs == {-PIPE_H + OFFSET, -70}
\* The arguments step() is called with: 0 (jump), 1 (no-op), 2 (invalid).
Actions == {0, 1, 2}

KeyDown(k) == [type |-> "KEYDOWN", key |-> k]
K_SPACE == KeyDown("K_SPACE")
K_m == KeyDown("K_m")
K_a == KeyDown("K_a")
KEYUP == [type |-> "KEYUP", key |-> "K_SPACE"]
QUIT == [type |-> "QUIT", key |-> "none"]
\* What pg.event.get() returns in one poll.
EventQueues ==
    { <<>>, <<K_SPACE>>, <<K_m>>, <<KEYUP>>, <<QUIT>>, <<K_m, K_SPACE>> }
\* The events a claim about one event ranges over (QUIT apart).
Events == { K_SPACE, K_m, K_a, KEYUP }

(* ------------------------------ objects.py ---------------------------- *)
\* Player.__init__
NewPlayer(x, y) == [x |-> x, y |-> y, velocity |-> INIT_VELOCITY]

\* Mutant of Jump: the impulse is one unit stronger than JUMP_VELOCITY.
Jump_Stronger(p) == [p EXCEPT !.velocity = JUMP_VELOCITY - 1]

\* Mutant of Jump: a jump only takes effect while the player falls.
Jump_OnlyWhenFalling(p) ==
    IF p.velocity > 0 THEN [p EXCEPT !.velocity = JUMP_VELOCITY] ELSE p

\* Player.jump
Jump(p) == [p EXCEPT !.velocity = JUMP_VELOCITY]

\* Mutant of PlayerUpdate: the bottom clamp keeps the velocity.
PlayerUpdate_KeepsVelocity(p) ==
    LET v1 == IF p.velocity < MAX_VELOCITY_Y THEN p.velocity + ACC_Y
              ELSE p.velocity
        y1 == p.y + v1
        y2 == IF y1 < 0 THEN 0 ELSE y1
        v2 == IF y1 < 0 THEN 0 ELSE v1
        top == SCREEN_HEIGHT - BIRD_H
    IN  IF y2 > top THEN [p EXCEPT !.y = top, !.velocity = v2]
        ELSE [p EXCEPT !.y = y2, !.velocity = v2]

\* Mutant of PlayerUpdate: gravity is added whatever the velocity.
PlayerUpdate_NoCap(p) ==
    LET v1 == p.velocity + ACC_Y
        y1 == p.y + v1
        y2 == IF y1 < 0 THEN 0 ELSE y1
        v2 == IF y1 < 0 THEN 0 ELSE v1
        top == SCREEN_HEIGHT - BIRD_H
    IN  IF y2 > top THEN [p EXCEPT !.y = top, !.velocity = 0]
        ELSE [p EXCEPT !.y = y2, !.velocity = v2]

\* Player.update
PlayerUpdate(p) ==
    LET v1 == IF p.velocity < MAX_VELOCITY_Y THEN p.velocity + ACC_Y
              ELSE p.velocity
        y1 == p.y + v1
        y2 == IF y1 < 0 THEN 0 ELSE y1
        v2 == IF y1 < 0 THEN 0 ELSE v1
        top == SCREEN_HEIGHT - BIRD_H
    IN  IF y2 > top THEN [p EXCEPT !.y = top, !.velocity = 0]
        ELSE [p EXCEPT !.y = y2, !.velocity = v2]

\* Player.take_action
TakeAction(p, move) == IF move = "jump" THEN Jump(p) ELSE p

\* Pipe.update
PipeUpdate(pipe) == [pipe EXCEPT !.x = pipe.x + PIPE_VELOCITY]

\* Pipe.collides
Collides(pipe, p) ==
    /\ pipe.x < p.x + BIRD_W
    /\ pipe.x + PIPE_W > p.x
    /\ pipe.y < p.y + BIRD_H
    /\ pipe.y + PIPE_H > p.y

(* ------------------------------ scenes.py ----------------------------- *)
\* _generate_pipes, d the value random.randrange returns
GeneratePipes(d) ==
    << [x |-> SCREEN_WIDTH, y |-> d],
       [x |-> SCREEN_WIDTH, y |-> d + PIPE_H + OFFSET] >>

\* MainMenu.__init__
NewMainMenu ==
    [kind |-> "MainMenu",
     player |-> NewPlayer(MENU_PLAYER_X, MENU_PLAYER_Y),
     pipes |-> << [x |-> MENU_PIPE_X, y |-> MENU_TOP_Y],
                  [x |-> MENU_PIPE_X, y |-> MENU_BOTTOM_Y] >>]

\* GameScene.__init__
NewGameScene(d) ==
    [kind |-> "GameScene",
     has_passed_a_pipe |-> FALSE,
     player |-> NewPlayer(PLAYER_X, PLAYER_Y),
     score |-> 0,
     pipes |-> << GeneratePipes(d) >>]

\* MainMenu.update_screen
MenuUpdateScreen(s) ==
    LET moved == [i \in 1..2 |-> PipeUpdate(s.pipes[i])]
    IN  IF moved[1].x < MENU_WRAP_AT
        THEN [s EXCEPT !.pipes = [i \in 1..2 |->
                                    [moved[i] EXCEPT !.x = MENU_WRAP_TO]]]
        ELSE [s EXCEPT !.pipes = moved]

\* Mutant of MenuCheckEvents: any key-down starts the game.
MenuCheckEvents_AnyKey(s, ev) ==
    IF ev.type = "KEYDOWN"
    THEN [code |-> "GameScene", scene |-> s]
    ELSE [code |-> "None", scene |-> s]

\* MainMenu.check_events: the code it returns
MenuCheckEvents(s, ev) ==
    IF ev.type = "KEYDOWN" /\ ev.key = "K_SPACE"
    THEN [code |-> "GameScene", scene |-> s]
    ELSE [code |-> "None", scene |-> s]

\* Mutant of CheckCollisions: the ground is hit only when passed.
CheckCollisions_StrictGround(s) ==
    \/ \E i \in 1..Len(s.pipes) :
          \/ Collides(s.pipes[i][1], s.player)
          \/ Collides(s.pipes[i][2], s.player)
    \/ s.player.y + BIRD_H > SCREEN_HEIGHT

\* Mutant of CheckCollisions: only the pipes are obstacles.
CheckCollisions_PipesOnly(s) ==
    \E i \in 1..Len(s.pipes) :
        \/ Collides(s.pipes[i][1], s.player)
        \/ Collides(s.pipes[i][2], s.player)

\* GameScene.check_collisions
CheckCollisions(s) ==
    \/ \E i \in 1..Len(s.pipes) :
          \/ Collides(s.pipes[i][1], s.player)
          \/ Collides(s.pipes[i][2], s.player)
    \/ s.player.y + BIRD_H >= SCREEN_HEIGHT

\* Mutant of Crossing: the scoring window is two scroll steps wide.
Crossing_WideWindow(pair, p) ==
    /\ 2 * pair[1].x + PIPE_W <= 2 * p.x + BIRD_W
    /\ 2 * p.x + BIRD_W < 2 * pair[1].x + PIPE_W + 4 * SCORE_WINDOW

\* The test of GameScene._check_player, on halves doubled to stay integral:
\* pipe_mid <= player_mid < pipe_mid + 4
Crossing(pair, p) ==
    /\ 2 * pair[1].x + PIPE_W <= 2 * p.x + BIRD_W
    /\ 2 * p.x + BIRD_W < 2 * pair[1].x + PIPE_W + 2 * SCORE_WINDOW

\* Mutant of CheckPlayer: the score is counted, the flag is not set.
CheckPlayer_NoFlag(s) ==
    LET hits == {i \in 1..Len(s.pipes) : Crossing(s.pipes[i], s.player)}
    IN  [s EXCEPT !.score = s.score + Cardinality(hits)]

\* GameScene._check_player
CheckPlayer(s) ==
    LET hits == {i \in 1..Len(s.pipes) : Crossing(s.pipes[i], s.player)}
    IN  IF hits = {} THEN s
        ELSE [s EXCEPT !.score = s.score + Cardinality(hits),
                       !.has_passed_a_pipe = TRUE]

\* Mutant of UpdatePositions: only the top pipe of each pair is moved.
UpdatePositions_TopOnly(s) ==
    [s EXCEPT !.player = PlayerUpdate(s.player),
              !.pipes = [i \in 1..Len(s.pipes) |->
                           << PipeUpdate(s.pipes[i][1]), s.pipes[i][2] >>]]

\* GameScene._update_positions
UpdatePositions(s) ==
    [s EXCEPT !.player = PlayerUpdate(s.player),
              !.pipes = [i \in 1..Len(s.pipes) |->
                           << PipeUpdate(s.pipes[i][1]),
                              PipeUpdate(s.pipes[i][2]) >>]]

\* Mutant of CheckPipes: the spawn window is two scroll steps wide.
CheckPipes_WideWindow(s, d) ==
    LET grown == IF 0 < s.pipes[1][1].x /\ s.pipes[1][1].x < 2 * SPAWN_WINDOW
                 THEN Append(s.pipes, GeneratePipes(d))
                 ELSE s.pipes
    IN  IF grown[1][1].x < -PIPE_W
        THEN [s EXCEPT !.pipes = Tail(grown)]
        ELSE [s EXCEPT !.pipes = grown]

\* Mutant of CheckPipes: a generated pair is put in front of the sequence.
CheckPipes_Prepend(s, d) ==
    LET grown == IF 0 < s.pipes[1][1].x /\ s.pipes[1][1].x < SPAWN_WINDOW
                 THEN <<GeneratePipes(d)>> \o s.pipes
                 ELSE s.pipes
    IN  IF grown[1][1].x < -PIPE_W
        THEN [s EXCEPT !.pipes = Tail(grown)]
        ELSE [s EXCEPT !.pipes = grown]

\* Mutant of CheckPipes: the spawn window lies left of the screen edge.
CheckPipes_LateSpawn(s, d) ==
    LET grown == IF -SPAWN_WINDOW < s.pipes[1][1].x /\ s.pipes[1][1].x < 0
                 THEN Append(s.pipes, GeneratePipes(d))
                 ELSE s.pipes
    IN  IF grown[1][1].x < -PIPE_W
        THEN [s EXCEPT !.pipes = Tail(grown)]
        ELSE [s EXCEPT !.pipes = grown]

\* GameScene._check_pipes, d the draw of the pair it may generate
CheckPipes(s, d) ==
    LET grown == IF 0 < s.pipes[1][1].x /\ s.pipes[1][1].x < SPAWN_WINDOW
                 THEN Append(s.pipes, GeneratePipes(d))
                 ELSE s.pipes
    IN  IF grown[1][1].x < -PIPE_W
        THEN [s EXCEPT !.pipes = Tail(grown)]
        ELSE [s EXCEPT !.pipes = grown]

\* Mutant of GameSceneUpdateScreen: a collision always asks for the menu.
GameSceneUpdateScreen_AlwaysMenu(s, is_ml, d) ==
    IF CheckCollisions(s)
    THEN [code |-> "MainMenu", scene |-> s]
    ELSE [code |-> "None",
          scene |-> CheckPipes(UpdatePositions(CheckPlayer(s)), d)]

\* Mutant of GameSceneUpdateScreen: a colliding scene still moves.
GameSceneUpdateScreen_KeepsMoving(s, is_ml, d) ==
    IF CheckCollisions(s)
    THEN [code |-> IF is_ml THEN "GameScene" ELSE "MainMenu",
          scene |-> UpdatePositions(CheckPlayer(s))]
    ELSE [code |-> "None",
          scene |-> CheckPipes(UpdatePositions(CheckPlayer(s)), d)]

\* GameScene.update_screen
GameSceneUpdateScreen(s, is_ml, d) ==
    IF CheckCollisions(s)
    THEN [code |-> IF is_ml THEN "GameScene" ELSE "MainMenu", scene |-> s]
    ELSE [code |-> "None",
          scene |-> CheckPipes(UpdatePositions(CheckPlayer(s)), d)]

\* GameScene.check_events
GameSceneCheckEvents(s, ev) ==
    LET s1 == IF ev.type = "KEYDOWN" /\ ev.key = "K_SPACE"
              THEN [s EXCEPT !.player = Jump(s.player)]
              ELSE s
    IN  IF ev.type = "KEYDOWN" /\ ev.key = "K_m"
        THEN [code |-> "MainMenu", scene |-> s1]
        ELSE [code |-> "None", scene |-> s1]

\* GameScene.get_horizontal_distance_to_next_pipe
HorizontalDistance(s) ==
    s.pipes[Len(s.pipes)][1].x - (s.player.x + BIRD_W)

\* GameScene.get_vertical_distance_to_upper_pipe
UpperDistance(s) ==
    s.player.y - (s.pipes[Len(s.pipes)][1].y + PIPE_H)

\* GameScene.get_vertical_distance_to_lower_pipe
LowerDistance(s) ==
    s.pipes[Len(s.pipes)][2].y - (s.player.y + BIRD_H)

(* ------------------------------- game.py ------------------------------ *)
VARIABLES
    is_ml,          \* Game.is_ml
    current_scene,  \* Game.current_scene
    running,        \* FALSE once sys.exit() was called
    ticks,          \* how many times the current GameScene was advanced
    call,           \* the last call of a public method that came back
    ret             \* what that call returned, or the exception it raised

vars == << is_ml, current_scene, running, ticks, call, ret >>

\* Game._action_to_move
ActionToMove == [a \in {0, 1} |-> IF a = 0 THEN "jump" ELSE "do nothing"]

\* Game._get_obs
GetObs(s) ==
    [player_velocity |-> s.player.velocity,
     x_distance |-> HorizontalDistance(s),
     y_upper_distance |-> UpperDistance(s),
     y_lower_distance |-> LowerDistance(s)]

\* Mutant of ResetScene: the score of the scene it sets is not zero.
ResetScene_KeepsAPoint(d) == [NewGameScene(d) EXCEPT !.score = 1]

\* Game.reset: the scene it sets
ResetScene(d) == NewGameScene(d)

\* Game._update_screen, d the draw of the pipe pair generated in it; code
\* is what the scene's update_screen returned
UpdateScreen(s, ml, d) ==
    IF s.kind = "MainMenu"
    THEN [code |-> "None", scene |-> MenuUpdateScreen(s)]
    ELSE LET r == GameSceneUpdateScreen(s, ml, d)
         IN  IF r.code = "MainMenu"
             THEN [code |-> r.code, scene |-> NewMainMenu]
             ELSE IF r.code = "GameScene"
             THEN [code |-> r.code, scene |-> ResetScene(d)]
             ELSE [code |-> r.code, scene |-> r.scene]

\* The code the current scene's check_events returns for an event
EventCode(s, ev) ==
    IF s.kind = "MainMenu" THEN MenuCheckEvents(s, ev)
    ELSE GameSceneCheckEvents(s, ev)

\* The body of the loop of Game._check_events for an event other than QUIT
HandleEvent(s, ml, ev, d) ==
    LET r == EventCode(s, ev)
    IN  IF r.code = "GameScene" THEN NewGameScene(d)
        ELSE IF r.code = "MainMenu" THEN NewMainMenu
        ELSE r.scene

\* Game._check_events over the polled events; sys.exit() ends the loop.
\* switched: some event replaced the scene.
RECURSIVE CheckEvents(_, _, _, _)
CheckEvents(s, ml, evs, d) ==
    IF evs = <<>> THEN [scene |-> s, exited |-> FALSE, switched |-> FALSE]
    ELSE IF Head(evs).type = "QUIT"
    THEN [scene |-> s, exited |-> TRUE, switched |-> FALSE]
    ELSE LET r == CheckEvents(HandleEvent(s, ml, Head(evs), d), ml,
                              Tail(evs), d)
         IN  [r EXCEPT !.switched =
                  r.switched \/ EventCode(s, Head(evs)).code # "None"]

\* Game.render; fresh: the call replaced the scene, advanced: it moved the
\* GameScene it was called on by one tick.  A pair generated in _update_screen and a scene constructed
\* in _check_events never both survive one call (the new scene replaces
\* the one the pair was appended to), so one draw d serves both.
RenderResult(s, ml, evs, d) ==
    LET u == UpdateScreen(s, ml, d)
        r == CheckEvents(u.scene, ml, evs, d)
    IN  [scene |-> r.scene, exited |-> r.exited, code |-> u.code,
         switched |-> r.switched,
         fresh |-> u.code # "None" \/ r.switched,
         advanced |-> s.kind = "GameScene" /\ u.code = "None"]

\* What a call hands back: outcome is "returned" (the tuple of step() or
\* reset()), "None" (render(), and step() outside agent mode), the name
\* of the exception raised, or "none" when nothing was called or the
\* process exited; score is the info dictionary's entry.
Return(outcome, reward, terminated, score) ==
    [outcome |-> outcome, reward |-> reward, terminated |-> terminated,
     score |-> score]

NoReturn == Return("none", 0, FALSE, 0)
ReturnNone == Return("None", 0, FALSE, 0)

\* Mutant of StepTail: a collision is paid but the episode is not ended.
StepTail_NoTerminate(s, ml, action) ==
    IF ~ml THEN [scene |-> s, ret |-> ReturnNone]
    ELSE IF action \notin DOMAIN ActionToMove
    THEN [scene |-> s, ret |-> Return("KeyError", 0, FALSE, 0)]
    ELSE IF s.kind = "MainMenu"
    THEN [scene |-> s, ret |-> Return("AttributeError", 0, FALSE, 0)]
    ELSE LET s2 == [s EXCEPT
                      !.player = TakeAction(s.player, ActionToMove[action]),
                      !.has_passed_a_pipe = FALSE]
         IN  [scene |-> s2,
              ret |-> Return("returned",
                             IF CheckCollisions(s2) THEN COLLISION_REWARD
                             ELSE IF s.has_passed_a_pipe THEN 1 ELSE 0,
                             FALSE, s2.score)]

\* Mutant of StepTail: an action outside the action set counts as a no-op.
StepTail_Coerce(s, ml, action) ==
    IF ~ml THEN [scene |-> s, ret |-> ReturnNone]
    ELSE IF s.kind = "MainMenu"
    THEN [scene |-> s, ret |-> Return("AttributeError", 0, FALSE, 0)]
    ELSE LET s2 == [s EXCEPT
                      !.player = IF action = 0 THEN Jump(s.player)
                                 ELSE s.player,
                      !.has_passed_a_pipe = FALSE]
             hit == CheckCollisions(s2)
         IN  [scene |-> s2,
              ret |-> Return("returned",
                             IF hit THEN COLLISION_REWARD
                             ELSE IF s.has_passed_a_pipe THEN 1 ELSE 0,
                             hit, s2.score)]

\* The part of Game.step after render(): the scene it leaves and what it
\* returns or raises
StepTail(s, ml, action) ==
    IF ~ml THEN [scene |-> s, ret |-> ReturnNone]
    ELSE IF action \notin DOMAIN ActionToMove
    THEN [scene |-> s, ret |-> Return("KeyError", 0, FALSE, 0)]
    ELSE LET s1 == [s EXCEPT !.player =
                        TakeAction(s.player, ActionToMove[action])]
         IN  IF s1.kind = "MainMenu"
             THEN [scene |-> s1,
                   ret |-> Return("AttributeError", 0, FALSE, 0)]
             ELSE LET r1 == IF s1.has_passed_a_pipe THEN 1 ELSE 0
                      s2 == [s1 EXCEPT !.has_passed_a_pipe = FALSE]
                      hit == CheckCollisions(s2)
                  IN  [scene |-> s2,
                       ret |-> Return("returned",
                                      IF hit THEN COLLISION_REWARD ELSE r1,
                                      hit, s2.score)]

\* The driver issues a jump input only when the player falls fast enough.
JumpInput(action, evs) ==
    \/ action = 0
    \/ \E i \in 1..Len(evs) : evs[i] = K_SPACE

InputAllowed(action, evs) ==
    (current_scene.kind = "GameScene" /\ JumpInput(action, evs))
        => current_scene.player.velocity \in JumpVelocities

\* What one render() can come to from the current scene: one result for
\* each poll the driver may feed it and each draw.
Renders(action) ==
    { RenderResult(current_scene, is_ml, evs, d) :
        evs \in {q \in EventQueues : InputAllowed(action, q)}, d \in PipeYs }

\* The scene can still be advanced within the bounds.
CanAdvance == running /\ ticks < MaxTicks

\* The count of ticks of the scene a render() leaves
Ticks(r) ==
    IF r.fresh THEN 0 ELSE IF r.advanced THEN ticks + 1 ELSE ticks

\* call: the last call of a public method that came back to its caller,
\* with the code update_screen gave in it and whether an event replaced
\* the scene in it.
Call(op, action, code, switched) ==
    [op |-> op, action |-> action, code |-> code, switched |-> switched]

NoCall == Call("none", 1, "None", FALSE)

\* Mutant of Init: the menu is the first scene in both modes.
Init_AlwaysMenu ==
    /\ is_ml \in BOOLEAN
    /\ current_scene = NewMainMenu
    /\ running = TRUE
    /\ ticks = 0
    /\ call = NoCall
    /\ ret = NoReturn

\* Game.__init__
Init ==
    /\ is_ml \in BOOLEAN
    /\ \E d \in PipeYs :
          current_scene = IF is_ml THEN NewGameScene(d) ELSE NewMainMenu
    /\ running = TRUE
    /\ ticks = 0
    /\ call = NoCall
    /\ ret = NoReturn

\* Game.step(action)
Step(action) ==
    /\ CanAdvance
    /\ \E r \in Renders(action) :
          \E t \in {StepTail(r.scene, is_ml, action)} :
             /\ ticks' = Ticks(r)
             /\ IF r.exited
                THEN
                  /\ current_scene' = r.scene
                  /\ running' = FALSE
                  /\ call' = NoCall
                  /\ ret' = NoReturn
                ELSE
                  /\ current_scene' = t.scene
                  /\ running' = TRUE
                  /\ call' = Call("step", action, r.code, r.switched)
                  /\ ret' = t.ret
    /\ UNCHANGED is_ml

\* Game.render()
Render ==
    /\ CanAdvance
    /\ \E r \in Renders(1) :
          /\ current_scene' = r.scene
          /\ ticks' = Ticks(r)
          /\ running' = ~r.exited
          /\ call' = IF r.exited THEN NoCall
                     ELSE Call("render", 1, r.code, r.switched)
          /\ ret' = IF r.exited THEN NoReturn ELSE ReturnNone
    /\ UNCHANGED is_ml

\* Game.reset()
Reset ==
    /\ running
    /\ \E d \in PipeYs :
          /\ current_scene' = ResetScene(d)
          /\ ret' = Return("returned", 0, FALSE, ResetScene(d).score)
    /\ ticks' = 0
    /\ call' = Call("reset", 1, "None", FALSE)
    /\ UNCHANGED << is_ml, running >>

Next ==
    \/ \E action \in Actions : Step(action)
    \/ Render
    \/ Reset

Spec == Init /\ [][Next]_vars

(* A Player driven directly through its methods (objects.py), in any     *)
(* order: the scene's player as check_events and step() reach it          *)
(* (player.jump(), player.take_action()) and as _update_positions does    *)
(* (player.update()).                                                      *)
PlayerInit ==
    /\ is_ml = FALSE
    /\ current_scene = [kind |-> "Player",
                        player |-> NewPlayer(PLAYER_X, PLAYER_Y)]
    /\ running = TRUE
    /\ ticks = 0
    /\ call = NoCall
    /\ ret = NoReturn

\* player.jump()
PlayerJump ==
    /\ current_scene' = [current_scene EXCEPT !.player = Jump(@)]
    /\ call' = Call("jump", 0, "None", FALSE)
    /\ UNCHANGED << is_ml, running, ticks, ret >>

\* player.update()
PlayerTick ==
    /\ current_scene' = [current_scene EXCEPT !.player = PlayerUpdate(@)]
    /\ call' = Call("update", 1, "None", FALSE)
    /\ UNCHANGED << is_ml, running, ticks, ret >>

PlayerNext ==
    \/ PlayerJump
    \/ PlayerTick

PlayerSpec == PlayerInit /\ [][PlayerNext]_vars

(* Pipe.collides called directly on a pipe and a player whose sprites    *)
(* have the sizes given: each is a record [x, y, w, h].                    *)
\* Mutant of CollidesSprites: the tests on x admit equality.
CollidesSprites_Inclusive(pipe, player) ==
    /\ pipe.x <= player.x + player.w
    /\ pipe.x + pipe.w >= player.x
    /\ pipe.y < player.y + player.h
    /\ pipe.y + pipe.h > player.y

\* Pipe.collides, the sprite sizes read from the records
CollidesSprites(pipe, player) ==
    /\ pipe.x < player.x + player.w
    /\ pipe.x + pipe.w > player.x
    /\ pipe.y < player.y + player.h
    /\ pipe.y + pipe.h > player.y

\* The sprite sizes the pipes and players are drawn with: the 50x50 of
\* the spec's literal case, and the pipe's and the bird's own.
PipeSizes == { <<50, 50>>, <<PIPE_W, PIPE_H>> }
PlayerSizes == { <<50, 50>>, <<BIRD_W, BIRD_H>> }
\* Pipe positions around a player at (100, 300): apart, touching at an
\* edge, overlapping by one unit, and coinciding.
PipeXs == {50, 51, 100, 149, 150, 200}
PipeRectYs == {30, 250, 251, 300, 349, 350}

SpritesInit ==
    /\ is_ml = FALSE
    /\ \E px \in PipeXs, py \in PipeRectYs, ps \in PipeSizes,
          bs \in PlayerSizes :
          current_scene =
             [kind |-> "Sprites",
              pipe |-> [x |-> px, y |-> py, w |-> ps[1], h |-> ps[2]],
              player |-> [x |-> PLAYER_X, y |-> PLAYER_Y,
                          w |-> bs[1], h |-> bs[2]]]
    /\ running = TRUE
    /\ ticks = 0
    /\ call = NoCall
    /\ ret = NoReturn

\* pipe.collides(player)
Collide ==
    /\ call = NoCall
    /\ call' = Call("collides", 1, "None", FALSE)
    /\ ret' = [outcome |-> "returned",
               collides |-> CollidesSprites(current_scene.pipe,
                                            current_scene.player)]
    /\ UNCHANGED << is_ml, current_scene, running, ticks >>

SpritesNext == Collide

SpritesSpec == SpritesInit /\ [][SpritesNext]_vars

(* ------------------------------- claims ------------------------------- *)
InGame == current_scene.kind = "GameScene"
InMenu == current_scene.kind = "MainMenu"
\* The last call was a step() that handed back its tuple in agent mode.
StepReturned == is_ml /\ call.op = "step" /\ ret.outcome = "returned"
\* The player's horizontal midpoint has reached the pair's midpoint.
Passed(pair, p) == 2 * pair[1].x + PIPE_W <= 2 * p.x + BIRD_W
\* update_screen runs the crossing check on a pair the player is crossing.
CrossingTick(s) ==
    /\ s.kind = "GameScene"
    /\ ~CheckCollisions(s)
    /\ \E i \in 1..Len(s.pipes) : Crossing(s.pipes[i], s.player)

C2_CollisionTransitions ==
    [][ (call'.op \in {"step", "render"} /\ InGame /\ ~call'.switched)
        => IF CheckCollisions(current_scene)
           THEN IF is_ml
                THEN /\ call'.code = "GameScene"
                     /\ \E d \in PipeYs : current_scene' = NewGameScene(d)
                ELSE /\ call'.code = "MainMenu"
                     /\ current_scene' = NewMainMenu
           ELSE /\ call'.code = "None"
                /\ current_scene'.kind = "GameScene" ]_vars

\* C2 witness: a step in agent mode found the collision and reset.
C2_Witness ==
    /\ is_ml /\ call.op = "step" /\ call.code = "GameScene"
    /\ ~call.switched /\ InGame

\* C3 as claimed: a step() in which a collision is detected, by
\* update_screen at its start or by step's own check at its end, returns
\* reward -500 and terminated; any other step returns neither terminated
\* nor a negative reward.
C3_AsClaimed ==
    StepReturned =>
        IF call.code = "GameScene" \/ CheckCollisions(current_scene)
        THEN ret.reward = COLLISION_REWARD /\ ret.terminated
        ELSE ret.reward >= 0 /\ ~ret.terminated

\* C3 amended: when step() returns in agent mode, terminated is true and
\* the reward is -500 exactly if step's own check_collisions() holds of
\* the scene the step leaves, whichever action was given; otherwise
\* terminated is false and the reward is not negative.  A step whose
\* update_screen found the scene already colliding leaves a reset scene
\* and returns reward 0, not terminated.
C3_CollisionReward ==
    StepReturned =>
        /\ IF CheckCollisions(current_scene)
           THEN ret.reward = COLLISION_REWARD /\ ret.terminated
           ELSE ret.reward >= 0 /\ ~ret.terminated
        /\ call.code = "GameScene" => (ret.reward = 0 /\ ~ret.terminated)

\* C3 witness: a step(jump) that ended in a collision.
C3_Witness ==
    /\ StepReturned /\ call.action = 0
    /\ ret.terminated /\ ret.reward = COLLISION_REWARD

\* C4 as claimed: every step(no-op) that returns on a tick where the
\* player crosses a pair's midpoint returns reward +1, reports a score one
\* higher and leaves has_passed_a_pipe false.
C4_AsClaimed ==
    [][ (is_ml /\ call'.op = "step" /\ call'.action = 1
         /\ ret'.outcome = "returned" /\ ~call'.switched
         /\ CrossingTick(current_scene))
        => /\ ret'.reward = 1
           /\ ret'.score = current_scene.score + 1
           /\ ~current_scene'.has_passed_a_pipe ]_vars

\* C4 amended: on such a step the score reported is one higher and
\* has_passed_a_pipe is false afterwards; the reward is +1 unless the
\* player collides at the end of the tick, and -500 (terminated) if so.
C4_CrossingReward ==
    [][ (is_ml /\ call'.op = "step" /\ call'.action = 1
         /\ ret'.outcome = "returned" /\ ~call'.switched
         /\ CrossingTick(current_scene))
        => /\ ret'.score = current_scene.score + 1
           /\ current_scene'.score = current_scene.score + 1
           /\ ~current_scene'.has_passed_a_pipe
           /\ IF CheckCollisions(current_scene')
              THEN ret'.reward = COLLISION_REWARD /\ ret'.terminated
              ELSE ret'.reward = 1 /\ ~ret'.terminated ]_vars

\* C4 witness: a step(no-op) returned reward +1 with the score at 1.
C4_Witness ==
    /\ StepReturned /\ call.action = 1 /\ ret.reward = 1
    /\ ret.score = 1 /\ ~current_scene.has_passed_a_pipe

\* C5 as claimed: the position update inside step(jump) already uses the
\* jump velocity, so the y the step leaves is the y of an update after
\* jump().
C5_AsClaimed ==
    [][ (is_ml /\ call'.op = "step" /\ call'.action = 0
         /\ ret'.outcome = "returned" /\ ~call'.switched
         /\ InGame /\ ~CheckCollisions(current_scene))
        => current_scene'.player.y
             = PlayerUpdate(Jump(current_scene.player)).y ]_vars

\* C6 as claimed: step() with an action outside {0, 1} raises an error, in
\* agent mode and outside it.
C6_AsClaimed ==
    [][ (call'.op = "step" /\ call'.action \notin {0, 1})
        => ret'.outcome \notin {"returned", "None"} ]_vars

\* C6 amended: in agent mode step() with an action outside {0, 1} raises
\* KeyError and returns nothing; outside agent mode step() does not read
\* its action and returns None for any value.
C6_InvalidAction ==
    [][ (call'.op = "step" /\ call'.action \notin {0, 1})
        => IF is_ml THEN ret'.outcome = "KeyError"
           ELSE ret'.outcome = "None" ]_vars

\* C6 witness: step(2) raised KeyError in agent mode.
C6_Witness ==
    is_ml /\ call.op = "step" /\ call.action = 2 /\ ret.outcome = "KeyError"

\* C7 as claimed, for the calls in which no polled event replaces the
\* scene: when step() fails on an invalid action, the active scene's kind,
\* score, has_passed_a_pipe, pipe sequence and player y are what they were
\* before the call.
C7_AsClaimed ==
    [][ (call'.op = "step" /\ ret'.outcome = "KeyError" /\ ~call'.switched)
        => /\ current_scene'.kind = current_scene.kind
           /\ current_scene'.score = current_scene.score
           /\ current_scene'.has_passed_a_pipe
                 = current_scene.has_passed_a_pipe
           /\ current_scene'.pipes = current_scene.pipes
           /\ current_scene'.player.y = current_scene.player.y ]_vars

\* C8: after reset() the scene is a fresh GameScene: score 0,
\* has_passed_a_pipe false, the player at (100, 300) with velocity -8, one
\* pipe pair at x = surface width whose top y is a draw of the generator
\* and whose bottom pipe lies OFFSET below it; the info reports score 0.
C8_ResetFresh ==
    call.op = "reset" =>
        /\ InGame
        /\ current_scene.score = 0
        /\ ~current_scene.has_passed_a_pipe
        /\ current_scene.player = [x |-> 100, y |-> 300, velocity |-> -8]
        /\ Len(current_scene.pipes) = 1
        /\ current_scene.pipes[1][1].x = SCREEN_WIDTH
        /\ current_scene.pipes[1][2].x = SCREEN_WIDTH
        /\ current_scene.pipes[1][1].y \in (-PIPE_H + OFFSET)..(-1)
        /\ current_scene.pipes[1][2].y
             = current_scene.pipes[1][1].y + PIPE_H + OFFSET
        /\ ret.outcome = "returned" /\ ret.score = 0

\* C8 witness: reset() was called outside agent mode, where the scene
\* before it was a MainMenu or a GameScene in play.
C8_Witness == ~is_ml /\ call.op = "reset" /\ InGame

\* The observation of the current scene lies in the observation space.
ObsInBounds(o) ==
    /\ X_DISTANCE_LOW <= o.x_distance /\ o.x_distance <= X_DISTANCE_HIGH
    /\ Y_UPPER_LOW <= o.y_upper_distance
    /\ o.y_upper_distance <= Y_UPPER_HIGH
    /\ Y_LOWER_LOW <= o.y_lower_distance
    /\ o.y_lower_distance <= Y_LOWER_HIGH

\* C9 as claimed: every observation reset() or step() returns in agent
\* mode has its distance fields inside the declared bounds.
C9_AsClaimed ==
    (is_ml /\ ret.outcome = "returned") => ObsInBounds(GetObs(current_scene))

SceneTick ==
    /\ InGame /\ call'.op \in {"step", "render"}
    /\ call'.code = "None" /\ ~call'.switched

\* A pair moved by one tick of scroll.
Scrolled(pair) ==
    << [pair[1] EXCEPT !.x = @ + PIPE_VELOCITY],
       [pair[2] EXCEPT !.x = @ + PIPE_VELOCITY] >>

\* The sequence holds one pair that has not reached the spawn window, or a
\* pair still (partly) on screen together with the one pair it spawned
\* while it was in the window.
PipeShape(pipes) ==
    /\ Len(pipes) \in 1..2
    /\ \A i \in 1..Len(pipes) : pipes[i][1].x >= -PIPE_W
    /\ Len(pipes) = 1 => pipes[1][1].x >= SPAWN_WINDOW
    /\ Len(pipes) = 2 =>
          /\ pipes[1][1].x < SPAWN_WINDOW
          /\ pipes[2][1].x - pipes[1][1].x > SCREEN_WIDTH - SPAWN_WINDOW
          /\ pipes[2][1].x - pipes[1][1].x < SCREEN_WIDTH

C12_PairGeometry ==
    InGame =>
        \A i \in 1..Len(current_scene.pipes) :
            LET top == current_scene.pipes[i][1]
                bottom == current_scene.pipes[i][2]
            IN  /\ bottom.y - (top.y + PIPE_H) = 110
                /\ top.x = bottom.x
                /\ -PIPE_H + 110 <= top.y /\ top.y < 0

\* C12 witness: two pairs of different draws, both scrolled.
C12_Witness ==
    /\ InGame /\ Len(current_scene.pipes) = 2
    /\ current_scene.pipes[1][1].y # current_scene.pipes[2][1].y
    /\ current_scene.pipes[2][1].x < SCREEN_WIDTH

\* The y an update would give before the clamps: y plus the velocity
\* after gravity.
Unclamped(p) ==
    p.y + (IF p.velocity < 10 THEN p.velocity + 1 ELSE p.velocity)

\* C13: after every update(), whatever jump() and update() calls came
\* before, y is within [0, surface height - sprite height]; when the
\* unclamped y is below 0 or above surface height - sprite height, y is
\* that bound and the velocity is 0 after the update.
C13_Clamp ==
    [][ call'.op = "update" =>
          LET raw == Unclamped(current_scene.player)
              q == current_scene'.player
          IN  /\ 0 <= q.y /\ q.y <= SCREEN_HEIGHT - BIRD_H
              /\ raw < 0 => (q.y = 0 /\ q.velocity = 0)
              /\ raw > SCREEN_HEIGHT - BIRD_H =>
                    (q.y = SCREEN_HEIGHT - BIRD_H /\ q.velocity = 0) ]_vars

\* C13 witness: an update clamped the player at the top bound.
C13_Witness ==
    /\ call.op = "update"
    /\ current_scene.player.y = 0 /\ current_scene.player.velocity = 0

\* C14 as claimed: jump() sets the velocity to -8 and leaves y alone; the
\* update() right after a jump() applies no gravity: y moves by exactly
\* -8 and the velocity is still -8 (for a player at least 8 below the top
\* bound, where no clamp interferes).
C14_AsClaimed ==
    [][ /\ call'.op = "jump" =>
              /\ current_scene'.player.velocity = JUMP_VELOCITY
              /\ current_scene'.player.y = current_scene.player.y
        /\ (call.op = "jump" /\ call'.op = "update"
              /\ current_scene.player.y + JUMP_VELOCITY >= 0) =>
              /\ current_scene'.player.y
                    = current_scene.player.y + JUMP_VELOCITY
              /\ current_scene'.player.velocity = JUMP_VELOCITY ]_vars

\* C14 amended: jump() sets the velocity to -8 in every state and leaves
\* x and y alone; the update() right after a jump() applies gravity like
\* any other update: the velocity becomes -7 and y moves by -7, or, when
\* that would pass the top bound, y and the velocity become 0.
C14_JumpThenUpdate ==
    [][ /\ Jump(current_scene.player)
              = [current_scene.player EXCEPT !.velocity = -8]
        /\ call'.op = "jump" =>
              current_scene'.player
                 = [current_scene.player EXCEPT !.velocity = -8]
        /\ (call.op = "jump" /\ call'.op = "update") =>
              IF current_scene.player.y - 7 >= 0
              THEN /\ current_scene'.player.y = current_scene.player.y - 7
                   /\ current_scene'.player.velocity = -7
              ELSE /\ current_scene'.player.y = 0
                   /\ current_scene'.player.velocity = 0 ]_vars

\* C14 witness: an update right after a jump, of a player that has
\* climbed well above where the first rise alone takes it.
C14_Witness ==
    /\ call.op = "update" /\ current_scene.player.velocity = -7
    /\ current_scene.player.y < 200

\* C15 as claimed: once the velocity is max_velocity_y, it is still
\* max_velocity_y after every further update().
C15_AsClaimed ==
    [][ (call'.op = "update"
          /\ current_scene.player.velocity = MAX_VELOCITY_Y)
        => current_scene'.player.velocity = MAX_VELOCITY_Y ]_vars

\* C15 amended: the velocity never exceeds max_velocity_y; an update()
\* that does not clamp y raises a velocity below 10 by exactly 1 and
\* keeps a velocity of 10; an update() that clamps y (the player reaches
\* a bound) sets the velocity to 0, so a player lying on the bottom bound
\* has velocity 0 after every update and does not come back to 10.
C15_GravitySaturates ==
    [][ call'.op = "update" =>
          LET p == current_scene.player
              q == current_scene'.player
              raw == Unclamped(p)
          IN  /\ q.velocity <= MAX_VELOCITY_Y
              /\ IF raw < 0 \/ raw > SCREEN_HEIGHT - BIRD_H
                 THEN q.velocity = 0
                 ELSE IF p.velocity < MAX_VELOCITY_Y
                 THEN q.velocity = p.velocity + 1
                 ELSE q.velocity = MAX_VELOCITY_Y
              /\ p.y = SCREEN_HEIGHT - BIRD_H /\ p.velocity >= 0
                    => (q.y = p.y /\ q.velocity = 0) ]_vars

\* C15 witness: an update left the player falling at max_velocity_y.
C15_Witness ==
    /\ call.op = "update"
    /\ current_scene.player.velocity = MAX_VELOCITY_Y
    /\ current_scene.player.y > PLAYER_Y

\* Two rectangles have a unit square in common.
SharePixel(a, b) ==
    \E x \in a.x..(a.x + a.w - 1), y \in a.y..(a.y + a.h - 1) :
        /\ b.x <= x /\ x < b.x + b.w
        /\ b.y <= y /\ y < b.y + b.h

\* C16: pipe.collides(player) is true exactly when the two rectangles
\* overlap on both axes by at least one unit; the result is the same with
\* the two rectangles swapped; rectangles that only touch at an edge do
\* not collide; of 50x50 rectangles, a pipe at (100, 300) collides with a
\* player at (100, 300) and a pipe at (200, 300) does not.
C16_Collides ==
    call.op = "collides" =>
        LET pipe == current_scene.pipe
            player == current_scene.player
        IN  /\ ret.collides <=> SharePixel(pipe, player)
            /\ ret.collides <=> CollidesSprites(player, pipe)
            /\ (\/ pipe.x + pipe.w = player.x
                \/ player.x + player.w = pipe.x
                \/ pipe.y + pipe.h = player.y
                \/ player.y + player.h = pipe.y) => ~ret.collides
            /\ (pipe.w = 50 /\ pipe.h = 50 /\ player.w = 50
                  /\ player.h = 50 /\ player.x = 100 /\ player.y = 300)
                 => /\ (pipe.x = 100 /\ pipe.y = 300) => ret.collides
                    /\ (pipe.x = 200 /\ pipe.y = 300) => ~ret.collides

\* C16 witness: the literal case of two coinciding 50x50 rectangles.
C16_Witness ==
    /\ call.op = "collides" /\ ret.collides
    /\ current_scene.pipe = [x |-> 100, y |-> 300, w |-> 50, h |-> 50]
    /\ current_scene.player = [x |-> 100, y |-> 300, w |-> 50, h |-> 50]

\* The Game was constructed and none of its methods has been called.
Constructed == running /\ call.op = "none"

\* C17 as claimed: right after construction the active scene is a
\* MainMenu, in agent mode and outside it.
C17_AsClaimed == Constructed => InMenu

\* C17 amended: right after construction the active scene is a new
\* MainMenu outside agent mode and a new GameScene in agent mode.
C17_InitialScene ==
    Constructed =>
        IF is_ml THEN \E d \in PipeYs : current_scene = NewGameScene(d)
        ELSE current_scene = NewMainMenu

\* C17 witness: a Game constructed in agent mode, in its GameScene.
C17_Witness == Constructed /\ is_ml /\ InGame

\* C18: update_screen called on a colliding GameScene returns its code
\* and leaves the scene as it was: score, has_passed_a_pipe, the player,
\* every pipe and the pipe sequence; and no step() or render() made in a
\* colliding state leaves a GameScene with a higher score.
C18_CollisionStops ==
    [][ (InGame /\ CheckCollisions(current_scene)
          /\ call'.op \in {"step", "render"})
        => /\ \A d \in PipeYs :
                LET r == GameSceneUpdateScreen(current_scene, is_ml, d)
                IN  r.scene = current_scene /\ r.code # "None"
           /\ call'.code # "None"
           /\ current_scene'.kind = "GameScene"
                 => current_scene'.score <= current_scene.score ]_vars

\* C18 witness: outside agent mode a render() found the player colliding
\* and the menu took over.
C18_Witness ==
    /\ ~is_ml /\ call.op = "render" /\ call.code = "MainMenu"
    /\ ~call.switched /\ InMenu

\* The pair where it was one tick of scroll ago.
Unscrolled(pair) ==
    << [pair[1] EXCEPT !.x = @ - PIPE_VELOCITY],
       [pair[2] EXCEPT !.x = @ - PIPE_VELOCITY] >>

\* The pair's midpoint came to or past the player's midpoint with the last
\* tick of scroll.
JustPassed(pair, p) == Passed(pair, p) /\ ~Passed(Unscrolled(pair), p)

\* C19: on every tick of a GameScene without collision the score rises by
\* the number of pairs whose midpoint came to or past the player's
\* midpoint with the last scroll step, which is 0 or 1: it never
\* decreases, and each pair is counted on exactly one tick; afterwards
\* every pair of the sequence that had come past before the tick is
\* counted in the score.
C19_ScoreCounts ==
    [][ SceneTick =>
          LET s == current_scene
              n == Cardinality({i \in 1..Len(s.pipes) :
                                  JustPassed(s.pipes[i], s.player)})
              counted == {i \in 1..Len(s.pipes) :
                            Passed(s.pipes[i], s.player)}
          IN  /\ n <= 1
              /\ current_scene'.score = s.score + n
              /\ current_scene'.score >= Cardinality(counted) ]_vars

\* C19 witness: outside agent mode the score went to 1 on a tick and the
\* successor of the counted pair has been generated.
C19_Witness ==
    /\ ~is_ml /\ InGame /\ current_scene.score = 1
    /\ current_scene.has_passed_a_pipe /\ Len(current_scene.pipes) = 2

\* The rectangle of a pipe's and of a player's sprite.
PipeRect(pipe) == [x |-> pipe.x, y |-> pipe.y, w |-> PIPE_W, h |-> PIPE_H]
PlayerRect(p) == [x |-> p.x, y |-> p.y, w |-> BIRD_W, h |-> BIRD_H]

\* Two rectangles have a column and a row of unit squares in common.
ShareColumnAndRow(a, b) ==
    /\ \E x \in a.x..(a.x + a.w - 1) : b.x <= x /\ x < b.x + b.w
    /\ \E y \in a.y..(a.y + a.h - 1) : b.y <= y /\ y < b.y + b.h

\* C20: check_collisions() of a GameScene is true exactly when the
\* player's rectangle overlaps the top or the bottom pipe of some pair or
\* player.y + player height >= surface height.  It is evaluated on every
\* reachable scene, and on that scene with the player put on either bound
\* of y: on the bottom bound it is always true, on the top bound only
\* when the player overlaps a pipe.
C20_CheckCollisions ==
    InGame =>
        \A y \in {current_scene.player.y, 0, SCREEN_HEIGHT - BIRD_H} :
            LET s == [current_scene EXCEPT !.player.y = y]
                hit == \E i \in 1..Len(s.pipes), j \in 1..2 :
                          ShareColumnAndRow(PlayerRect(s.player),
                                            PipeRect(s.pipes[i][j]))
            IN  /\ CheckCollisions(s)
                     <=> (hit \/ y + BIRD_H >= SCREEN_HEIGHT)
                /\ y = SCREEN_HEIGHT - BIRD_H => CheckCollisions(s)
                /\ (y = 0 /\ ~hit) => ~CheckCollisions(s)

\* C20 witness: a step left the player on the bottom bound, clear of the
\* pipes, and reported the collision.
C20_Witness ==
    /\ StepReturned /\ ret.terminated
    /\ current_scene.player.y = SCREEN_HEIGHT - BIRD_H
    /\ \A i \in 1..Len(current_scene.pipes) :
          current_scene.pipes[i][1].x >= PLAYER_X + BIRD_W

\* C21: after any interleaving of jump() and update() calls the player's
\* velocity is an integer between jump_velocity (-8) and max_velocity_y
\* (10), which are the declared bounds of the player_velocity field of
\* the observation.
C21_VelocityRange ==
    LET v == current_scene.player.velocity
    IN  /\ v \in Int
        /\ JUMP_VELOCITY <= v /\ v <= MAX_VELOCITY_Y
        /\ PLAYER_VELOCITY_LOW <= v /\ v <= PLAYER_VELOCITY_HIGH

\* C21 witness: a jump() made from the bottom bound, where the clamp had
\* set the velocity to 0.
C21_Witness ==
    /\ call.op = "jump"
    /\ current_scene.player.velocity = PLAYER_VELOCITY_LOW
    /\ current_scene.player.y = SCREEN_HEIGHT - BIRD_H

\* C22: in every GameScene state the sequence of pipe pairs is not empty,
\* holds at most two pairs, and is ordered oldest and leftmost first with
\* strictly increasing x, so its first and its last pair always exist.
C22_PipeSequence ==
    InGame =>
        LET pipes == current_scene.pipes
        IN  /\ Len(pipes) >= 1
            /\ Len(pipes) <= 2
            /\ \A i \in 1..Len(pipes), j \in 1..Len(pipes) :
                   i < j => pipes[i][1].x < pipes[j][1].x

\* C22 witness: two pairs are held while the oldest one is already partly
\* left of the screen.
C22_Witness ==
    /\ InGame
    /\ Len(current_scene.pipes) = 2
    /\ current_scene.pipes[1][1].x < 0
    /\ current_scene.pipes[2][1].x > 0

\* The number of update() calls without a jump() that bring the player to
\* the bottom bound.
RECURSIVE TicksToGround(_)
TicksToGround(p) ==
    IF p.y + BIRD_H >= SCREEN_HEIGHT THEN 0
    ELSE 1 + TicksToGround(PlayerUpdate(p))

\* A tick of a GameScene that leaves the player without a jump applied.
NoJumpTick ==
    /\ SceneTick /\ InGame'
    /\ current_scene'.player.velocity # JUMP_VELOCITY

\* C23: an episode without jumps ends.  From every GameScene state the
\* player is at most 62 jump-free ticks from the ground (the longest fall
\* of any player that jump() and update() can produce); every tick
\* without a jump brings it exactly one tick closer; a player on the ground
\* is a collision; in agent mode the step() whose tick ends in a collision
\* returns terminated, and in interactive mode the next tick of a colliding
\* scene sets the MainMenu.
C23_FallEnds ==
    [][ /\ NoJumpTick =>
            LET n == TicksToGround(current_scene.player)
                m == TicksToGround(current_scene'.player)
            IN  /\ n <= 62
                /\ m = n - 1
                /\ m = 0 => CheckCollisions(current_scene')
                /\ (CheckCollisions(current_scene') /\ is_ml
                        /\ call'.op = "step" /\ ret'.outcome = "returned")
                      => ret'.terminated
        /\ (InGame /\ CheckCollisions(current_scene) /\ ~is_ml
                /\ call'.op \in {"step", "render"} /\ ~call'.switched)
              => InMenu'
      ]_vars

\* C23 witness: 35 step(no-op) calls after construction, none with a jump,
\* have brought the player to the ground and the last one returned
\* terminated.
C23_Witness ==
    /\ StepReturned /\ call.action = 1 /\ ret.terminated
    /\ ticks = 35
    /\ current_scene.player.y = SCREEN_HEIGHT - BIRD_H
    /\ current_scene.player.velocity = 0

\* C24 as claimed: in agent mode, whenever step() goes on to read the
\* scene's state (it was given a mapped action), the active scene is a
\* GameScene and the step returns its tuple, whatever steps, resets and
\* polled events came before or during it.
C24_AsClaimed ==
    (is_ml /\ call.op = "step" /\ ret.outcome # "KeyError")
        => (InGame /\ ret.outcome = "returned")

=============================================================================
